---- MODULE Spec2Model ----
(***************************************************************************)
(* The phase sequencer, the animators of the planets, the Sun and the      *)
(* intruder, and the host's stability graph of the black-hole simulation.  *)
(*                                                                         *)
(* Fixed-point units (the program computes in floating point):             *)
(*   timer, dt          hundredths of a second                             *)
(*   delta              tenths of a second (the useFrame argument)         *)
(*   timeScale          tenths (the slider's step is 0.1)                  *)
(*   year               hundredths of a year                               *)
(*   stability          hundredths of a point                              *)
(*   now, lastUpdateRef milliseconds                                       *)
(*   dist               thousandths of a scene unit                        *)
(*   angle              1/2000 of a radian                                 *)
(*   scale, consumed    thousandths                                        *)
(*   position           thousandths of a scene unit                        *)
(* The input sets below keep every dt a multiple of a tenth of a second,   *)
(* so that the divisions in the year formulas are exact.                   *)
(*                                                                         *)
(* A frame is modelled together with the render that follows it: every     *)
(* useFrame callback reads the state of the last render.  SpecStale alone  *)
(* lets a Dashboard event come between a frame and its render.             *)
(***************************************************************************)
EXTENDS Integers, Sequences, FiniteSets

VARIABLES
    sceneState,     \* SceneLogic: [phase, timer]
    params,         \* App: [isPlaying, phase, timeScale, year]
    renderedParams, \* Dashboard: the params prop of its last render
    graphData,      \* App: sequence of [year, stability]
    lastUpdateRef,  \* App: time of the last graph sample
    stability,      \* handleUpdate: the score computed by the last call
    now,            \* the last value read from Date.now()
    delta,          \* the delta argument of the last frame
    orbitState,     \* Planet: name -> [dist, angle, destroyed]
    sunScale,       \* Sun: the x component of the mesh's scale
    sunConsumed,    \* SceneLogic: the consumed fraction the Sun reported last
    bhPosition      \* SceneLogic: the intruder's position, [x, z]

vars == <<sceneState, params, renderedParams, graphData, lastUpdateRef, stability,
          now, delta, orbitState, sunScale, sunConsumed, bhPosition>>

\* the state of the three.js bodies: planets, Sun and intruder
bodies == <<orbitState, sunScale, sunConsumed, bhPosition>>

----------------------------------------------------------------------------
(* Bounds and input sets *)

\* Date.now() at mount, standing for an epoch time far above the throttle
StartNow == 1000
\* the wall clock stops the graph run here
MaxNow == 71000
\* the wall clock stops the host run here
MaxNowHost == 2100
\* planet frames stop once an orbital angle passes this
MaxAngle == 40000

\* frame deltas: 0.2 s, 1 s and a 30 s gap (a tab that was hidden)
Deltas == {2, 10, 300}
\* slider positions 0.5x, 1x, 2x, 5x
TimeScales == {5, 10, 20, 50}

Phases == {"stable", "approach", "interaction", "consumption", "void", "rebirth"}

----------------------------------------------------------------------------
(* SceneLogic: the phase sequencer *)

\* mutant: the delta is used as it comes, whatever the slider says
Dt_Unscaled(d, timeScale) == d * 10

\* dt = delta * (params.timeScale || 1)
Dt(d, timeScale) == d * (IF timeScale = 0 THEN 10 ELSE timeScale)

\* mutant: the time beyond a threshold is carried over, so that a long
\* delta runs through several phases in one tick
NextSceneState_Carry(prev, dt) ==
    LET nextTimer == prev.timer + dt
    IN  IF prev.phase = "stable" /\ nextTimer > 1500
          THEN [phase |-> "interaction", timer |-> 0]
        ELSE IF prev.phase = "stable" /\ nextTimer > 500
          THEN [phase |-> "approach", timer |-> 0]
        ELSE IF prev.phase = "approach" /\ nextTimer > 1000
          THEN [phase |-> "interaction", timer |-> 0]
        ELSE IF prev.phase = "interaction" /\ nextTimer > 2000
          THEN [phase |-> "consumption", timer |-> 0]
        ELSE IF prev.phase = "consumption" /\ nextTimer > 1000
          THEN [phase |-> "void", timer |-> 0]
        ELSE IF prev.phase = "void" /\ nextTimer > 500
          THEN [phase |-> "rebirth", timer |-> 0]
        ELSE IF prev.phase = "rebirth" /\ nextTimer > 1500
          THEN [phase |-> "stable", timer |-> 0]
        ELSE [phase |-> prev.phase, timer |-> nextTimer]

\* mutant: the end of rebirth restarts rebirth instead of entering stable
NextSceneState_RebirthAgain(prev, dt) ==
    LET nextTimer == prev.timer + dt
    IN  IF prev.phase = "stable" /\ nextTimer > 500
          THEN [phase |-> "approach", timer |-> 0]
        ELSE IF prev.phase = "approach" /\ nextTimer > 1000
          THEN [phase |-> "interaction", timer |-> 0]
        ELSE IF prev.phase = "interaction" /\ nextTimer > 2000
          THEN [phase |-> "consumption", timer |-> 0]
        ELSE IF prev.phase = "consumption" /\ nextTimer > 1000
          THEN [phase |-> "void", timer |-> 0]
        ELSE IF prev.phase = "void" /\ nextTimer > 500
          THEN [phase |-> "rebirth", timer |-> 0]
        ELSE IF prev.phase = "rebirth" /\ nextTimer > 1500
          THEN [phase |-> "rebirth", timer |-> 0]
        ELSE [phase |-> prev.phase, timer |-> nextTimer]

\* mutant: entering approach keeps the elapsed time instead of resetting it
NextSceneState_KeepElapsed(prev, dt) ==
    LET nextTimer == prev.timer + dt
    IN  IF prev.phase = "stable" /\ nextTimer > 500
          THEN [phase |-> "approach", timer |-> nextTimer]
        ELSE IF prev.phase = "approach" /\ nextTimer > 1000
          THEN [phase |-> "interaction", timer |-> 0]
        ELSE IF prev.phase = "interaction" /\ nextTimer > 2000
          THEN [phase |-> "consumption", timer |-> 0]
        ELSE IF prev.phase = "consumption" /\ nextTimer > 1000
          THEN [phase |-> "void", timer |-> 0]
        ELSE IF prev.phase = "void" /\ nextTimer > 500
          THEN [phase |-> "rebirth", timer |-> 0]
        ELSE IF prev.phase = "rebirth" /\ nextTimer > 1500
          THEN [phase |-> "stable", timer |-> 0]
        ELSE [phase |-> prev.phase, timer |-> nextTimer]

\* mutant: the stable threshold compared with >= instead of >
NextSceneState_AtThreshold(prev, dt) ==
    LET nextTimer == prev.timer + dt
    IN  IF prev.phase = "stable" /\ nextTimer >= 500
          THEN [phase |-> "approach", timer |-> 0]
        ELSE IF prev.phase = "approach" /\ nextTimer > 1000
          THEN [phase |-> "interaction", timer |-> 0]
        ELSE IF prev.phase = "interaction" /\ nextTimer > 2000
          THEN [phase |-> "consumption", timer |-> 0]
        ELSE IF prev.phase = "consumption" /\ nextTimer > 1000
          THEN [phase |-> "void", timer |-> 0]
        ELSE IF prev.phase = "void" /\ nextTimer > 500
          THEN [phase |-> "rebirth", timer |-> 0]
        ELSE IF prev.phase = "rebirth" /\ nextTimer > 1500
          THEN [phase |-> "stable", timer |-> 0]
        ELSE [phase |-> prev.phase, timer |-> nextTimer]

NextSceneState(prev, dt) ==
    LET nextTimer == prev.timer + dt
    IN  IF prev.phase = "stable" /\ nextTimer > 500
          THEN [phase |-> "approach", timer |-> 0]
        ELSE IF prev.phase = "approach" /\ nextTimer > 1000
          THEN [phase |-> "interaction", timer |-> 0]
        ELSE IF prev.phase = "interaction" /\ nextTimer > 2000
          THEN [phase |-> "consumption", timer |-> 0]
        ELSE IF prev.phase = "consumption" /\ nextTimer > 1000
          THEN [phase |-> "void", timer |-> 0]
        ELSE IF prev.phase = "void" /\ nextTimer > 500
          THEN [phase |-> "rebirth", timer |-> 0]
        ELSE IF prev.phase = "rebirth" /\ nextTimer > 1500
          THEN [phase |-> "stable", timer |-> 0]
        ELSE [phase |-> prev.phase, timer |-> nextTimer]

\* t^6 years for t in hundredths of a second, taken at a tenth of a second,
\* in hundredths of a year, without leaving 32 bits
Pow6(t) ==
    LET td == t \div 10
        a  == td * td * td
        q  == a \div 100
        r  == a % 100
    IN  q * q + (200 * q * r + r * r) \div 10000

\* mutant: the interaction year starts from 2025 again
CurrentYear_InteractionFrom2025(s) ==
    CASE s.phase = "stable"      -> 202500
      [] s.phase = "approach"    -> 202500 + s.timer * 100
      [] s.phase = "interaction" -> 202500 + (s.timer * 5) \div 2
      [] s.phase = "consumption" -> 307500 + s.timer \div 10
      [] s.phase = "void"        -> 0
      [] s.phase = "rebirth"     -> Pow6(s.timer)

\* mutant: the interaction year grows by 0.25 years a second
CurrentYear_SlowInteraction(s) ==
    CASE s.phase = "stable"      -> 202500
      [] s.phase = "approach"    -> 202500 + s.timer * 100
      [] s.phase = "interaction" -> 302500 + s.timer \div 4
      [] s.phase = "consumption" -> 307500 + s.timer \div 10
      [] s.phase = "void"        -> 0
      [] s.phase = "rebirth"     -> Pow6(s.timer)

\* currentYear of the frame callback, from the rendered sceneState
CurrentYear(s) ==
    CASE s.phase = "stable"      -> 202500
      [] s.phase = "approach"    -> 202500 + s.timer * 100
      [] s.phase = "interaction" -> 302500 + (s.timer * 5) \div 2
      [] s.phase = "consumption" -> 307500 + s.timer \div 10
      [] s.phase = "void"        -> 0
      [] s.phase = "rebirth"     -> Pow6(s.timer)

----------------------------------------------------------------------------
(* App: the host's state, the stability score and the stability graph *)

Abs(x) == IF x < 0 THEN -x ELSE x
Min(a, b) == IF a < b THEN a ELSE b
Max(a, b) == IF a > b THEN a ELSE b

\* mutant: the score is clamped from above only
Stability_NoFloor(phase, year) ==
    LET raw == CASE phase = "approach"    -> 9500 - (year - 202500) \div 20
                 [] phase = "interaction" -> 8000 - (year - 302500) * 2
                 [] phase = "consumption" -> 2000 - (year - 307500) * 2
                 [] phase = "void"        -> 0
                 [] phase = "rebirth"     -> 10000
                 [] OTHER                 -> 10000
    IN  Min(10000, raw)

Stability(phase, year) ==
    LET raw == CASE phase = "approach"    -> 9500 - (year - 202500) \div 20
                 [] phase = "interaction" -> 8000 - (year - 302500) * 2
                 [] phase = "consumption" -> 2000 - (year - 307500) * 2
                 [] phase = "void"        -> 0
                 [] phase = "rebirth"     -> 10000
                 [] OTHER                 -> 10000
    IN  Max(0, Min(10000, raw))

\* mutant: a sample is due 500 ms after the last one
SampleDue_AtHalfSecond(t, phase) == t - lastUpdateRef >= 500 /\ phase # "stable"

\* the throttle: a sample is due more than 500 ms after the last one
SampleDue(t, phase) == t - lastUpdateRef > 500 /\ phase # "stable"

\* mutant: keeps the first 50 points
AppendPoint_KeepFirst(curr, pt) ==
    LET newData == Append(curr, pt)
    IN  IF Len(newData) > 50 THEN SubSeq(newData, 1, 50) ELSE newData

\* setGraphData(curr => ...): append, keep the last 50
AppendPoint(curr, pt) ==
    LET newData == Append(curr, pt)
    IN  IF Len(newData) > 50
          THEN SubSeq(newData, Len(newData) - 50 + 1, Len(newData))
          ELSE newData

\* the point the graph is reseeded with (whole years, hundredths of a point)
SeedPoint == [year |-> 0, stability |-> 10000]

\* mutant: the graph is reseeded before the throttled sample is appended
handleUpdate_ResetFirst(phase, year, t) ==
    LET prev   == params
        s      == Stability(phase, year)
        sample == SampleDue(t, phase)
        base   == IF phase = "rebirth" /\ prev.phase = "void"
                    THEN <<SeedPoint>>
                    ELSE graphData
    IN  /\ stability' = s
        /\ lastUpdateRef' = (IF sample THEN t ELSE lastUpdateRef)
        /\ graphData' = (IF sample
                           THEN AppendPoint(base, [year |-> year \div 100, stability |-> s])
                           ELSE base)
        /\ params' = (IF prev.phase # phase \/ Abs(prev.year - year) > 10
                        THEN [prev EXCEPT !.phase = phase, !.year = year]
                        ELSE prev)

\* onUpdate(phase, year), with t the value Date.now() returns in it
handleUpdate(phase, year, t) ==
    LET prev     == params
        s        == Stability(phase, year)
        sample   == SampleDue(t, phase)
        appended == IF sample
                      THEN AppendPoint(graphData, [year |-> year \div 100, stability |-> s])
                      ELSE graphData
    IN  /\ stability' = s
        /\ lastUpdateRef' = (IF sample THEN t ELSE lastUpdateRef)
        /\ graphData' = (IF phase = "rebirth" /\ prev.phase = "void"
                           THEN <<SeedPoint>>
                           ELSE appended)
        /\ params' = (IF prev.phase # phase \/ Abs(prev.year - year) > 10
                        THEN [prev EXCEPT !.phase = phase, !.year = year]
                        ELSE prev)

\* the render that follows a state update hands the new params to the
\* Dashboard
Render == renderedParams' = params'

\* Dashboard: the play/pause button, a functional update, rendered at the
\* end of the click
TogglePlay ==
    /\ params' = [params EXCEPT !.isPlaying = ~params.isPlaying]
    /\ renderedParams' = [renderedParams EXCEPT !.isPlaying = params'.isPlaying]
    /\ UNCHANGED <<sceneState, graphData, lastUpdateRef, stability, now, delta, bodies>>

\* Dashboard: the time-scale slider moved to v, an update with the object
\* built from the params prop of the last render, rendered at the end of
\* the event
SetTimeScale(v) ==
    /\ v # renderedParams.timeScale
    /\ params' = [renderedParams EXCEPT !.timeScale = v]
    /\ Render
    /\ UNCHANGED <<sceneState, graphData, lastUpdateRef, stability, now, delta, bodies>>

----------------------------------------------------------------------------
(* Planet: the six planets of SOLAR_SYSTEM and their per-frame update *)

\* distance in thousandths, angle in 1/2000 rad, speed in hundredths
SOLAR_SYSTEM ==
    [Mercury |-> [distance |-> 10000, angle |-> 0,     speed |-> 150],
     Venus   |-> [distance |-> 16000, angle |-> 4000,  speed |-> 120],
     Earth   |-> [distance |-> 24000, angle |-> 8000,  speed |-> 100],
     Mars    |-> [distance |-> 32000, angle |-> 2000,  speed |-> 80],
     Jupiter |-> [distance |-> 55000, angle |-> 10000, speed |-> 40],
     Saturn  |-> [distance |-> 85000, angle |-> 6000,  speed |-> 30]]

Planets == DOMAIN SOLAR_SYSTEM

\* the planet is drawn, so that its group ref is set
Rendered(o, phase) == ~(o.destroyed \/ phase = "void")

\* mutant: the interaction rule without the test of the planet's name
PlanetStep_AnyName(name, o, phase, timer, d) ==
    IF o.destroyed \/ phase = "void"
      THEN o
      ELSE
        LET data     == SOLAR_SYSTEM[name]
            angle1   == o.angle + data.speed * d
            progress == Min(1000, timer)
            newDist  ==
                CASE phase = "rebirth" ->
                       100 + ((data.distance - 100) * progress) \div 1000
                  [] phase = "consumption" ->
                       (o.dist * (20 - d)) \div 20
                  [] OTHER -> o.dist
            newAngle ==
                IF phase = "rebirth"
                  THEN angle1 + 4 * (1000 - progress) + 10 * data.speed
                  ELSE angle1
            marked   ==
                \/ phase = "interaction" /\ timer > 500
                \/ phase = "consumption" /\ newDist < 2000
        IN  [dist |-> newDist, angle |-> newAngle, destroyed |-> marked]

\* useFrame of the planet `name`, whose last render saw (phase, timer) and o
PlanetStep(name, o, phase, timer, d) ==
    IF ~Rendered(o, phase) \/ o.destroyed
      THEN o
      ELSE
        LET data     == SOLAR_SYSTEM[name]
            angle1   == o.angle + data.speed * d
            progress == Min(1000, timer)
            newDist  ==
                CASE phase = "rebirth" ->
                       100 + ((data.distance - 100) * progress) \div 1000
                  [] phase = "consumption" ->
                       (o.dist * (20 - d)) \div 20
                  [] OTHER -> o.dist
            newAngle ==
                IF phase = "rebirth"
                  THEN angle1 + 4 * (1000 - progress) + 10 * data.speed
                  ELSE angle1
            marked   ==
                \/ phase = "interaction" /\ name = "Venus" /\ timer > 500
                \/ phase = "consumption" /\ newDist < 2000
        IN  [dist |-> newDist, angle |-> newAngle, destroyed |-> marked]

PlanetFrames(d) ==
    orbitState' = [n \in Planets |->
                     PlanetStep(n, orbitState[n], sceneState.phase, sceneState.timer, d)]

----------------------------------------------------------------------------
(* Sun: the per-frame update of the mesh and the consumed fraction it       *)
(* reports to SceneLogic (the stretch along z and the light are left out)  *)

\* the Sun is drawn, so that its mesh and light refs are set
SunRendered(phase) == ~(phase = "void" \/ phase = "rebirth")

\* mutant: stable and approach leave the consumed fraction as it is
SunStep_NoReset(phase, timer) ==
    IF ~SunRendered(phase)
      THEN [scale |-> sunScale, consumed |-> sunConsumed]
    ELSE IF phase = "interaction"
      THEN [scale |-> 1000, consumed |-> sunConsumed]
    ELSE IF phase = "consumption"
      THEN LET scale == Max(0, 1000 - 2 * timer)
           IN  [scale |-> scale, consumed |-> 1000 - scale]
    ELSE [scale |-> 1000, consumed |-> sunConsumed]

\* mutant: the scale of consumption without the floor at 0
SunStep_NoFloor(phase, timer) ==
    IF ~SunRendered(phase)
      THEN [scale |-> sunScale, consumed |-> sunConsumed]
    ELSE IF phase = "interaction"
      THEN [scale |-> 1000, consumed |-> sunConsumed]
    ELSE IF phase = "consumption"
      THEN LET scale == 1000 - 2 * timer
           IN  [scale |-> scale, consumed |-> 1000 - scale]
    ELSE [scale |-> 1000, consumed |-> 0]

\* useFrame of the Sun, whose last render saw (phase, timer)
SunStep(phase, timer) ==
    IF ~SunRendered(phase)
      THEN [scale |-> sunScale, consumed |-> sunConsumed]
    ELSE IF phase = "interaction"
      THEN [scale |-> 1000, consumed |-> sunConsumed]
    ELSE IF phase = "consumption"
      THEN LET scale == Max(0, 1000 - 2 * timer)
           IN  [scale |-> scale, consumed |-> 1000 - scale]
    ELSE [scale |-> 1000, consumed |-> 0]

SunFrame ==
    LET sun == SunStep(sceneState.phase, sceneState.timer)
    IN  /\ sunScale' = sun.scale
        /\ sunConsumed' = sun.consumed

\* the accretion ring is drawn
RingRendered(phase) == phase = "interaction" \/ phase = "consumption"

\* the outer radius of the accretion ring
RingOuterRadius(consumed) == 2000 + consumed * 4

----------------------------------------------------------------------------
(* IntruderBlackHole: the per-frame update of the position                 *)

\* Math.sin of a thousandths of a radian, in thousandths: Bhaskara's
\* 16 h (pi - h) / (5 pi^2 - 4 h (pi - h)) on each half period, which is
\* within 0.002 of the sine
Sin(a) ==
    LET m == a % 6283
        h == IF m >= 3142 THEN m - 3142 ELSE m
        p == h * (3142 - h)
        v == (16 * p) \div ((49348022 - 4 * p) \div 1000)
    IN  IF m >= 3142 THEN -v ELSE v

\* Math.cos, as the sine a quarter period ahead
Cos(a) == Sin(a + 1571)

\* the intruder is drawn, so that its group ref is set
IntruderRendered(phase) == ~(phase = "stable" \/ phase = "rebirth")

\* useFrame of the intruder, whose last render saw (phase, timer): the
\* position it hands to setBhPosition
IntruderStep(phase, timer) ==
    IF ~IntruderRendered(phase)
      THEN bhPosition
    ELSE IF phase = "approach"
      THEN LET t == Min(1000, timer)
           IN  [x |-> Sin(timer * 5) * 5, z |-> 80000 - 60 * t]
    ELSE IF phase = "interaction"
      THEN LET t      == timer * 5
               radius == 20000 - 12 * Min(1000, timer \div 2)
           IN  [x |-> (Cos(t) * radius) \div 1000, z |-> (Sin(t) * radius) \div 1000]
    ELSE [x |-> 0, z |-> 0]

IntruderFrame == bhPosition' = IntruderStep(sceneState.phase, sceneState.timer)

----------------------------------------------------------------------------
(* One frame of SceneLogic: sequencer step and report to the host *)

\* mutant: a paused frame runs the sequencer at a tenth of the speed
SceneLogicFrame_Slowed(d, t) ==
    /\ sceneState' = NextSceneState(sceneState,
                        IF params.isPlaying THEN Dt(d, params.timeScale) ELSE d)
    /\ handleUpdate(sceneState.phase, CurrentYear(sceneState), t)

\* mutant: the report is computed from the state the tick produces
SceneLogicFrame_Fresh(d, t) ==
    IF ~params.isPlaying
      THEN UNCHANGED <<sceneState, params, graphData, lastUpdateRef, stability>>
      ELSE /\ sceneState' = NextSceneState(sceneState, Dt(d, params.timeScale))
           /\ handleUpdate(sceneState'.phase, CurrentYear(sceneState'), t)

\* useFrame of SceneLogic: setSceneState, then onUpdate with the phase and
\* the year of the rendered sceneState
SceneLogicFrame(d, t) ==
    IF ~params.isPlaying
      THEN UNCHANGED <<sceneState, params, graphData, lastUpdateRef, stability>>
      ELSE /\ sceneState' = NextSceneState(sceneState, Dt(d, params.timeScale))
           /\ handleUpdate(sceneState.phase, CurrentYear(sceneState), t)

----------------------------------------------------------------------------
(* Initial state: the state after the first render *)

Init ==
    /\ sceneState = [phase |-> "stable", timer |-> 0]
    /\ params = [isPlaying |-> TRUE, phase |-> "stable", timeScale |-> 10, year |-> 202500]
    /\ renderedParams = params
    /\ graphData = <<>>
    /\ lastUpdateRef = 0
    /\ stability = 10000
    /\ now = StartNow
    /\ delta = 0
    /\ orbitState = [n \in Planets |->
                      [dist |-> SOLAR_SYSTEM[n].distance,
                       angle |-> SOLAR_SYSTEM[n].angle,
                       destroyed |-> FALSE]]
    /\ sunScale = 1000
    /\ sunConsumed = 0
    /\ bhPosition = [x |-> 0, z |-> 100000]

----------------------------------------------------------------------------
(* SpecSeq: the sequencer and the host under frames of any delta, with the *)
(* wall clock held (the throttle is studied in SpecHost and SpecGraph)     *)

Tick(d) ==
    /\ delta' = d
    /\ SceneLogicFrame(d, now)
    /\ Render
    /\ UNCHANGED <<now, bodies>>

NextSeq ==
    \/ \E d \in Deltas : Tick(d)
    \/ TogglePlay
    \/ \E v \in TimeScales : SetTimeScale(v)

SpecSeq == Init /\ [][NextSeq]_vars

----------------------------------------------------------------------------
(* SpecPlanet: whole frames, the callbacks of SceneLogic, of the six       *)
(* planets, of the Sun and of the intruder with the same delta, wall clock *)
(* held                                                                    *)

\* frame deltas: 2 s and a 4 s gap
PlanetDeltas == {20, 40}
\* slider positions 1x and 5x
PlanetTimeScales == {10, 50}

Frame(d) ==
    /\ \A n \in Planets : orbitState[n].angle <= MaxAngle
    /\ delta' = d
    /\ SceneLogicFrame(d, now)
    /\ PlanetFrames(d)
    /\ SunFrame
    /\ IntruderFrame
    /\ Render
    /\ UNCHANGED now

NextPlanet ==
    \/ \E d \in PlanetDeltas : Frame(d)
    \/ TogglePlay
    \/ \E v \in PlanetTimeScales : SetTimeScale(v)

SpecPlanet == Init /\ [][NextPlanet]_vars

----------------------------------------------------------------------------
(* SpecHost: handleUpdate called with any phase and year, the wall clock   *)
(* advancing between the calls                                             *)

\* reported years: far below 0, 2025, 3040, 3080, far above any phase
HostYears == {-1000000000, 202500, 304000, 308000, 1000000000}
\* milliseconds between two calls
HostSteps == {250, 251}

HostUpdate(phase, year, ms) ==
    /\ now + ms <= MaxNowHost
    /\ now' = now + ms
    /\ handleUpdate(phase, year, now')
    /\ Render
    /\ UNCHANGED <<sceneState, delta, bodies>>

NextHost ==
    \E phase \in Phases, year \in HostYears, ms \in HostSteps : HostUpdate(phase, year, ms)

SpecHost == Init /\ [][NextHost]_vars

----------------------------------------------------------------------------
(* SpecGraph: the sequencer at 1x under 0.6 s frames, the wall clock       *)
(* advancing with the frames, playing or paused                            *)

GraphFrame ==
    /\ now + 600 <= MaxNow
    /\ now' = now + 600
    /\ delta' = 6
    /\ SceneLogicFrame(6, now')
    /\ Render
    /\ UNCHANGED bodies

NextGraph ==
    \/ GraphFrame
    \/ TogglePlay

SpecGraph == Init /\ [][NextGraph]_vars

----------------------------------------------------------------------------
(* SpecRaw: the sequencer fed the delta as it comes, a negative one         *)
(* included (a clock that stepped back), at 1x and always playing          *)

\* frame deltas: -0.2 s and 1 s
RawDeltas == {-2, 10}
\* raw frames stop once elapsed has run this far below 0
MaxBack == 100

RawTick(d) ==
    /\ sceneState.timer >= -MaxBack
    /\ Tick(d)

NextRaw == \E d \in RawDeltas : RawTick(d)

SpecRaw == Init /\ [][NextRaw]_vars

----------------------------------------------------------------------------
(* SpecScale: the sequencer under 1 s frames, always playing, wall clock    *)
(* held, the slider having been left at any of its positions before the    *)
(* first frame                                                             *)

\* the slider: min 0.1, max 5.0, step 0.1
SliderPositions == 1..50

InitScale ==
    /\ sceneState = [phase |-> "stable", timer |-> 0]
    /\ \E v \in SliderPositions :
         params = [isPlaying |-> TRUE, phase |-> "stable", timeScale |-> v, year |-> 202500]
    /\ renderedParams = params
    /\ graphData = <<>>
    /\ lastUpdateRef = 0
    /\ stability = 10000
    /\ now = StartNow
    /\ delta = 0
    /\ orbitState = [n \in Planets |->
                      [dist |-> SOLAR_SYSTEM[n].distance,
                       angle |-> SOLAR_SYSTEM[n].angle,
                       destroyed |-> FALSE]]
    /\ sunScale = 1000
    /\ sunConsumed = 0
    /\ bhPosition = [x |-> 0, z |-> 100000]

NextScale == Tick(10)

SpecScale == InitScale /\ [][NextScale]_vars

----------------------------------------------------------------------------
(* SpecLive: the sequencer always playing, the slider free to move, and    *)
(* the render loop calling the frame callback again and again with a       *)
(* positive delta (weak fairness of the frames)                            *)

\* frame deltas: 1 s and a 30 s gap
LiveDeltas == {10, 300}
\* slider positions 1x and 2x
LiveTimeScales == {10, 20}

LiveFrame == \E d \in LiveDeltas : Tick(d)

NextLive ==
    \/ LiveFrame
    \/ \E v \in LiveTimeScales : SetTimeScale(v)

SpecLive == Init /\ [][NextLive]_vars /\ WF_vars(LiveFrame)

----------------------------------------------------------------------------
(* SpecStale: the sequencer and the host with the render after a frame as  *)
(* a step of its own, so that a Dashboard event can come between the       *)
(* frame's host update and the render that shows it; wall clock held       *)

\* frame deltas: 1 s and a 30 s gap
StaleDeltas == {10, 300}
\* slider positions 1x and 2x
StaleTimeScales == {10, 20}

\* a frame whose host update is queued and not rendered yet; the frame
\* before it has been rendered
LateTick(d) ==
    /\ renderedParams = params
    /\ delta' = d
    /\ SceneLogicFrame(d, now)
    /\ UNCHANGED <<now, bodies, renderedParams>>

\* the render of the queued host update
Commit ==
    /\ renderedParams # params
    /\ renderedParams' = params
    /\ UNCHANGED <<sceneState, params, graphData, lastUpdateRef, stability, now, delta, bodies>>

NextStale ==
    \/ \E d \in StaleDeltas : LateTick(d)
    \/ Commit
    \/ TogglePlay
    \/ \E v \in StaleTimeScales : SetTimeScale(v)

SpecStale == Init /\ [][NextStale]_vars

----------------------------------------------------------------------------
(* The cycle and the thresholds as the specification states them *)

CycleNext(p) ==
    CASE p = "stable"      -> "approach"
      [] p = "approach"    -> "interaction"
      [] p = "interaction" -> "consumption"
      [] p = "consumption" -> "void"
      [] p = "void"        -> "rebirth"
      [] p = "rebirth"     -> "stable"

Threshold(p) ==
    CASE p = "stable"      -> 500
      [] p = "approach"    -> 1000
      [] p = "interaction" -> 2000
      [] p = "consumption" -> 1000
      [] p = "void"        -> 500
      [] p = "rebirth"     -> 1500

\* C1: every step keeps the phase or moves it to the next phase of the cycle
\* stable -> approach -> interaction -> consumption -> void -> rebirth -> stable,
\* whatever the delta, the time scale and the play/pause toggling.
C1_PhaseOrder ==
    [][\/ sceneState'.phase = sceneState.phase
       \/ sceneState'.phase = CycleNext(sceneState.phase)]_vars

\* the sequencer is back in stable after a whole cycle (the host still shows
\* rebirth) and the last frame was the 30 s gap, longer than any threshold
C1_Witness ==
    /\ sceneState.phase = "stable"
    /\ params.phase = "rebirth"
    /\ delta = 300

\* C2: a playing tick with scaled delta dt takes (P, e) to (next of P, 0) when
\* e + dt > threshold(P) and to (P, e + dt) otherwise.
C2_TickFunction ==
    [][(params.isPlaying /\ params'.isPlaying /\ params'.timeScale = params.timeScale)
         => LET dt == delta' * params.timeScale
                p  == sceneState.phase
                e  == sceneState.timer
            IN  IF e + dt > Threshold(p)
                  THEN sceneState' = [phase |-> CycleNext(p), timer |-> 0]
                  ELSE sceneState' = [phase |-> p, timer |-> e + dt]]_vars

\* elapsed has reached the threshold of stable exactly, by a 0.2 s frame, and
\* the phase is still stable
C2_Witness ==
    /\ sceneState = [phase |-> "stable", timer |-> 500]
    /\ delta = 2
    /\ params.isPlaying

\* C3: no step taken while the playing flag is false changes (phase, elapsed).
C3_PausedFrozen ==
    [][~params.isPlaying => sceneState' = sceneState]_vars

\* paused at (stable, 0.2 s) and the last frame was the 30 s gap: a playing
\* frame of that length leaves stable, so this frame ran while paused
C3_Witness ==
    /\ ~params.isPlaying
    /\ sceneState = [phase |-> "stable", timer |-> 20]
    /\ delta = 300

----------------------------------------------------------------------------
(* Planet claims, under SpecPlanet *)

\* a step that is a frame: the two Dashboard controls change params
FrameStep ==
    /\ params'.isPlaying = params.isPlaying
    /\ params'.timeScale = params.timeScale

NewlyDestroyed(n) == ~orbitState[n].destroyed /\ orbitState'[n].destroyed

\* C4: while the playing flag is false no step changes the sequencer state or
\* any planet's orbital angle, orbital radius or destroyed flag.
C4_PausedAllFrozen ==
    [][~params.isPlaying => sceneState' = sceneState /\ orbitState' = orbitState]_vars

\* C5: after a frame that observes the phase stable no planet is destroyed:
\* the flags set during the cycle are reset.
C5_ResetInStable ==
    [][(FrameStep /\ sceneState.phase = "stable")
         => \A n \in Planets : ~orbitState'[n].destroyed]_vars

\* C6 as stated: a frame marks Venus destroyed exactly when it observes
\* interaction with elapsed > 5, marks no other planet in interaction, and
\* Venus is destroyed by the time interaction ends.
C6_VenusIffInteraction ==
    [][FrameStep =>
         /\ \A n \in Planets :
              (NewlyDestroyed(n) /\ sceneState.phase = "interaction") => n = "Venus"
         /\ NewlyDestroyed("Venus")
              => (sceneState.phase = "interaction" /\ sceneState.timer > 500)
         /\ (sceneState.phase = "interaction" /\ sceneState'.phase = "consumption")
              => orbitState'["Venus"].destroyed]_vars

\* C6 amended: a frame that observes interaction leaves Venus destroyed
\* exactly when Venus was destroyed already or the observed elapsed is > 5,
\* and marks no other planet; in any other phase Venus is marked only by the
\* consumption rule, its radius having fallen below 2.
C6_VenusRule ==
    [][FrameStep =>
         /\ \A n \in Planets :
              (NewlyDestroyed(n) /\ sceneState.phase = "interaction") => n = "Venus"
         /\ sceneState.phase = "interaction"
              => (orbitState'["Venus"].destroyed
                    <=> (orbitState["Venus"].destroyed \/ sceneState.timer > 500))
         /\ NewlyDestroyed("Venus")
              => \/ sceneState.phase = "interaction" /\ sceneState.timer > 500
                 \/ sceneState.phase = "consumption" /\ orbitState'["Venus"].dist < 2000]_vars

\* the first interaction phase (the graph was never reseeded): Venus is
\* destroyed and the five other planets are not
C6_Witness ==
    /\ sceneState.phase = "interaction"
    /\ sceneState.timer > 500
    /\ graphData # <<>> /\ graphData[1] # SeedPoint
    /\ orbitState["Venus"].destroyed
    /\ \A n \in Planets \ {"Venus"} : ~orbitState[n].destroyed

----------------------------------------------------------------------------
(* Host claims *)

\* C7: the stability score of every host update, and of every point of the
\* graph, lies in [0, 100], whatever the phase and the year reported.
C7_StabilityRange ==
    /\ 0 <= stability /\ stability <= 10000
    /\ \A i \in 1..Len(graphData) :
         0 <= graphData[i].stability /\ graphData[i].stability <= 10000

\* an interaction update with a year far above 3025, whose unclamped score
\* is far below 0, was sampled
C7_Witness ==
    /\ params.phase = "interaction"
    /\ params.year = 1000000000
    /\ stability = 0
    /\ lastUpdateRef = now

C9_Throttle ==
    [][/\ lastUpdateRef' # lastUpdateRef
            => /\ lastUpdateRef' = now'
               /\ lastUpdateRef' - lastUpdateRef > 500
               /\ params'.phase # "stable"
               /\ Len(graphData') = Len(graphData) + 1
                    \/ (params.phase = "void" /\ params'.phase = "rebirth")
       /\ graphData' # graphData
            => \/ lastUpdateRef' # lastUpdateRef
               \/ params.phase = "void" /\ params'.phase = "rebirth"]_vars

\* an update of a phase other than stable came exactly 500 ms after the
\* last sample and was not sampled
C9_Witness ==
    /\ now - lastUpdateRef = 500
    /\ lastUpdateRef > 0
    /\ params.phase = "approach"
    /\ Len(graphData) = 1

----------------------------------------------------------------------------
(* Sequencer claims on the delta and the time scale *)

\* C11: the frame delta is clamped to be non-negative before it is used, so
\* that no tick decreases elapsed and elapsed is >= 0 in every reachable state.
C11_ElapsedNonNegative ==
    /\ [](sceneState.timer >= 0)
    /\ [][sceneState'.phase = sceneState.phase
            => sceneState'.timer >= sceneState.timer]_vars

\* C12: a playing tick advances elapsed by delta * timeScale, for every time
\* scale of the slider (0.1 to 5.0): the tick either stays in the phase with
\* elapsed grown by exactly that much, or that much takes elapsed past the
\* threshold and the phase is left.
C12_ScaledAdvance ==
    [][(FrameStep /\ params.isPlaying /\ sceneState' # sceneState)
         => LET advance == delta' * params.timeScale
            IN  IF sceneState'.phase = sceneState.phase
                  THEN sceneState'.timer - sceneState.timer = advance
                  ELSE sceneState.timer + advance > Threshold(sceneState.phase)]_vars

\* the slider at 2.0 and one frame of 1 s from (stable, 0): elapsed is 2.0
C12_Witness ==
    /\ params.timeScale = 20
    /\ delta = 10
    /\ sceneState = [phase |-> "stable", timer |-> 200]

\* C13: the sequencer has no terminal state: while the playing flag stays
\* true and frames with a positive delta keep coming, every phase is entered
\* again and again, so that stable is reached again from every reachable state.
C13_EveryPhaseRecurs ==
    \A p \in Phases : []<>(sceneState.phase = p)

\* the second cycle: approach is entered again after the graph was reseeded
\* in the rebirth of the first cycle
C13_Witness ==
    /\ sceneState.phase = "approach"
    /\ params.isPlaying
    /\ graphData = <<SeedPoint>>

----------------------------------------------------------------------------
(* Claims on the simulated year, under SpecSeq *)

\* t^6 for t in hundredths of a second taken at a tenth, in hundredths of a
\* year: (t^2)^3 / 10^4, by the square of the square
SixthPower(t) ==
    LET td == t \div 10
        s2 == td * td
        s4 == s2 * s2
    IN  (s4 \div 10000) * s2 + ((s4 % 10000) * s2) \div 10000

\* the simulated year of (phase, elapsed) as the specification states it
YearOf(p, t) ==
    CASE p = "stable"      -> 202500
      [] p = "approach"    -> 202500 + 100 * t
      [] p = "interaction" -> 302500 + 2 * t + t \div 2
      [] p = "consumption" -> 307500 + t \div 10
      [] p = "void"        -> 0
      [] p = "rebirth"     -> SixthPower(t)

\* C14: the year reported for (phase, t) is 2025 in stable, 2025 + 100 t in
\* approach, 3025 + 2.5 t in interaction, 3075 + 0.1 t in consumption, 0 in
\* void and t^6 in rebirth: a year the host stores is that year, and a year
\* it does not store is within the 0.1 years the host ignores.
C14_YearFormula ==
    [][(FrameStep /\ params.isPlaying)
         => LET y == YearOf(sceneState.phase, sceneState.timer)
            IN  /\ params' # params => params'.year = y
                /\ Abs(params'.year - y) <= 10
                /\ stability' = Stability(sceneState.phase, y)]_vars

\* the host shows the year 15^6 = 11 390 625 of the end of rebirth
C14_Witness ==
    /\ params.phase = "rebirth"
    /\ params.year = 1139062500

----------------------------------------------------------------------------
(* Claims on the Sun and the intruder, under SpecPlanet *)

\* C15: a frame that observes consumption with elapsed t leaves the Sun's
\* scale at max(0, 1 - t/5), the consumed fraction at 1 - scale and the outer
\* radius of the accretion ring at 2 + 4 * consumed: scale 1 at t = 0, and
\* scale 0, consumed 1 and radius 6 from t = 5 s to the end of consumption.
C15_SunShrinks ==
    [][(FrameStep /\ sceneState.phase = "consumption")
         => LET t     == sceneState.timer
                scale == IF t >= 500 THEN 0 ELSE 1000 - 2 * t
            IN  /\ sunScale' = scale
                /\ sunConsumed' = 1000 - scale
                /\ RingRendered(sceneState.phase)
                /\ RingOuterRadius(sunConsumed') = 6000 - 4 * scale
                /\ t = 0 => sunScale' = 1000
                /\ t >= 500 => (/\ sunScale' = 0
                                /\ sunConsumed' = 1000
                                /\ RingOuterRadius(sunConsumed') = 6000)]_vars

\* still in consumption, the Sun gone and the ring at its full width
C15_Witness ==
    /\ sceneState.phase = "consumption"
    /\ sunScale = 0
    /\ sunConsumed = 1000

\* C16: a frame that observes rebirth with elapsed t rebuilds every one of
\* the six planets, those destroyed earlier in the cycle included: the planet
\* is present and its orbital radius is 0.1 at t = 0, its nominal radius from
\* t = 10 s on, and 0.1 + (nominal - 0.1) * min(1, t/10) in between.
C16_RebuiltInRebirth ==
    [][(FrameStep /\ sceneState.phase = "rebirth")
         => \A n \in Planets :
              LET progress == Min(1000, sceneState.timer)
                  nominal  == SOLAR_SYSTEM[n].distance
              IN  /\ ~orbitState'[n].destroyed
                  /\ orbitState'[n].dist = 100 + ((nominal - 100) * progress) \div 1000]_vars

----------------------------------------------------------------------------
(* Claims on what a tick reports, under SpecSeq *)

\* C17: a playing tick reports the phase of the sequencer state before the
\* tick and the year of that state's phase and elapsed, never the phase or
\* the elapsed the tick produces: the tick that enters a phase reports the
\* last state of the phase it leaves.
C17_ReportedPreTick ==
    [][(FrameStep /\ params.isPlaying /\ sceneState' # sceneState)
         => /\ params'.phase = sceneState.phase
            /\ stability' = Stability(sceneState.phase, CurrentYear(sceneState))
            /\ params' # params => params'.year = CurrentYear(sceneState)
            /\ sceneState'.phase # sceneState.phase
                 => /\ params'.phase # sceneState'.phase
                    /\ Abs(params'.year - CurrentYear(sceneState)) <= 10]_vars

\* the tick that entered interaction reported approach with the year 3025
\* of (approach, 10 s)
C17_Witness ==
    /\ sceneState = [phase |-> "interaction", timer |-> 0]
    /\ params.phase = "approach"
    /\ params.year = 302500

----------------------------------------------------------------------------
(* Claim on the intruder, under SpecPlanet *)

\* the square of the distance to the origin, in hundredths of a scene unit
DistSq(pos) == (pos.x \div 10) * (pos.x \div 10) + (pos.z \div 10) * (pos.z \div 10)

\* C18: in consumption the intruder moves linearly to the origin: the frame
\* that observes consumption at elapsed 0 leaves it where interaction left
\* it, on an orbit of radius >= 8 (7.9 here, for the fixed-point sine), and
\* no frame that observes consumption takes it farther from the origin.
C18_LinearApproach ==
    [][(FrameStep /\ sceneState.phase = "consumption")
         => /\ sceneState.timer = 0
                 => /\ bhPosition' = bhPosition
                    /\ DistSq(bhPosition') >= 790 * 790
            /\ DistSq(bhPosition') <= DistSq(bhPosition)]_vars

----------------------------------------------------------------------------
(* Claims on the range and the order of the years, under SpecSeq *)

\* the range of the year in each phase as the specification states it
YearMin(p) ==
    CASE p = "stable"      -> 202500
      [] p = "approach"    -> 202500
      [] p = "interaction" -> 302500
      [] p = "consumption" -> 307500
      [] p = "void"        -> 0
      [] p = "rebirth"     -> 0

YearMax(p) ==
    CASE p = "stable"      -> 202500
      [] p = "approach"    -> 302500
      [] p = "interaction" -> 307500
      [] p = "consumption" -> 307600
      [] p = "void"        -> 0
      [] p = "rebirth"     -> 1139062500

\* C19: with deltas >= 0, elapsed lies between 0 and the threshold of the
\* phase in every reachable state, so that the year of the state and the
\* year the host holds stay in the range of their phase: at most 3025 in
\* approach, 3075 in interaction, 3076 in consumption and 15^6 in rebirth.
C19_ElapsedAndYearBounded ==
    /\ 0 <= sceneState.timer
    /\ sceneState.timer <= Threshold(sceneState.phase)
    /\ YearMin(sceneState.phase) <= CurrentYear(sceneState)
    /\ CurrentYear(sceneState) <= YearMax(sceneState.phase)
    /\ YearMin(params.phase) <= params.year
    /\ params.year <= YearMax(params.phase)

\* elapsed stood at the threshold of consumption, 10 s, in the tick that
\* entered void: the host holds the year 3076 of that state
C19_Witness ==
    /\ sceneState = [phase |-> "void", timer |-> 0]
    /\ params.phase = "consumption"
    /\ params.year = 307600

\* the phases from stable to consumption
Destruction == {"stable", "approach", "interaction", "consumption"}

\* C20: from the first report of stable to the last report of consumption of
\* the same cycle the reported year never decreases from one report to the
\* next, the boundaries approach -> interaction (3025) and interaction ->
\* consumption (3075) included: neither the year of the sequencer state,
\* which the next tick reports, nor the year the host holds ever steps back.
C20_YearMonotone ==
    [][/\ (sceneState.phase \in Destruction /\ sceneState'.phase \in Destruction)
            => CurrentYear(sceneState') >= CurrentYear(sceneState)
       /\ (params.phase \in Destruction /\ params'.phase \in Destruction)
            => params'.year >= params.year]_vars

\* the tick that entered consumption reported interaction with the year
\* 3075, the year consumption starts from
C20_Witness ==
    /\ sceneState = [phase |-> "consumption", timer |-> 0]
    /\ params.phase = "interaction"
    /\ params.year = 307500

----------------------------------------------------------------------------
(* Claim on the order of the stability scores, under SpecSeq *)

\* the phases of the destruction sequence
DestructionSequence == {"approach", "interaction", "consumption", "void"}

\* C21: during the destruction sequence the stability score never increases:
\* of two consecutive host updates whose phases are among approach,
\* interaction, consumption and void the later score is at most the earlier
\* one, the updates across approach -> interaction and interaction ->
\* consumption included.
C21_StabilityNonIncreasing ==
    [][(/\ FrameStep
        /\ params.isPlaying
        /\ params.phase \in DestructionSequence
        /\ params'.phase \in DestructionSequence)
         => stability' <= stability]_vars

----------------------------------------------------------------------------
(* Claims on the host state under Dashboard events, under SpecStale *)

\* C22: a time-scale change of the Dashboard changes only timeScale in the
\* host state: phase, year and isPlaying keep the values of the latest host
\* update, however slider changes, play/pause toggles and the frames' host
\* updates interleave.
C22_SliderOnlyTimeScale ==
    [][params'.timeScale # params.timeScale
         => /\ params'.phase = params.phase
            /\ params'.year = params.year
            /\ params'.isPlaying = params.isPlaying]_vars

----------------------------------------------------------------------------
(* Claim on the consumed fraction over the cycles, under SpecPlanet *)

\* C23: the consumed fraction a consumption phase leaves behind is reset to
\* 0 before the next interaction starts and is not changed in interaction:
\* it is 0 whenever the sequencer is in interaction and before and after
\* every frame that observes interaction, with the accretion ring at its
\* base radius 2, and only a frame that observes consumption raises it.
C23_ConsumedResetBeforeInteraction ==
    /\ [](sceneState.phase = "interaction" => sunConsumed = 0)
    /\ [][FrameStep =>
            /\ sceneState.phase = "interaction"
                 => /\ sunConsumed' = 0
                    /\ RingRendered(sceneState.phase)
                    /\ RingOuterRadius(sunConsumed') = 2000
            /\ sunConsumed' > sunConsumed => sceneState.phase = "consumption"]_vars

\* the interaction of a later cycle (the graph was reseeded in a rebirth):
\* the consumed fraction is 0 again
C23_Witness ==
    /\ sceneState.phase = "interaction"
    /\ graphData = <<SeedPoint>>
    /\ sunConsumed = 0

----------------------------------------------------------------------------
(* Claim on the phase the host holds, under SpecStale *)

\* C24: the phase the host holds follows the sequencer with at most one
\* tick of lag and skips no phase: it is the sequencer's phase or the one
\* before it, and it changes only to the next phase of the cycle, so that
\* the host holds void immediately before rebirth.
C24_HostFollows ==
    /\ [](\/ params.phase = sceneState.phase
           \/ CycleNext(params.phase) = sceneState.phase)
    /\ [][params'.phase # params.phase
            => params'.phase = CycleNext(params.phase)]_vars

====
